---- MODULE Spec2Model ----
(***************************************************************************)
(* Task execution engine of Open-Agent-Studio.                             *)
(*                                                                         *)
(*   Spec     AgentOrchestrator._execute_plan with _self_debug             *)
(*            (src/agent_orchestrator.py): one run of the step driver.     *)
(*   ExecSpec DemoExecutor.execute_step (src/tutorial_agent/executor.py)   *)
(*            with the observation task of LiveCVObserver.start_observing  *)
(*            and the recording task, under asyncio's cooperative          *)
(*            scheduling: an action is the code one task runs between two  *)
(*            suspension points.                                           *)
(*   ObserverSpec  a caller that schedules start_observing as a task and   *)
(*            calls stop_observing at any later scheduling point; the      *)
(*            event loop runs every ready task (weak fairness).            *)
(*   RerunSpec  _execute_plan called twice by one caller with the same     *)
(*            plan object, against stubs that answer by tool and           *)
(*            arguments.                                                   *)
(*   SharedSpec  concurrent runs of _execute_plan on the orchestrator      *)
(*            that vps_api_server.py shares between its request threads;   *)
(*            it follows self.task_steps and the workflow generated from   *)
(*            it by process_user_message.                                  *)
(*   TutorialSpec  TutorialCreationAgent.create_tutorial in auto-execute   *)
(*            mode (src/tutorial_agent/orchestrator.py): execute_step      *)
(*            called for each step of the plan in turn.                    *)
(*   LoopSpec  the event loop's one thread under execute_step and          *)
(*            start_observing: which of the two it is running, and which   *)
(*            is due to be resumed.                                        *)
(*                                                                         *)
(* Step indices are 1-based here (the plan's position in plan["steps"]).   *)
(***************************************************************************)
EXTENDS Integers, Sequences, FiniteSets, TLC

(* ---------------------------------------------------------------- bounds *)
\* longest plan explored
MaxSteps == 3
\* most actions of one tutorial step
MaxActions == 2
\* observations whose content is tracked; later ones are only flagged
MaxObs == 2

(* ------------------------------------------------------------- values   *)
\* a dict with string keys is a total function over Keys; Absent marks a
\* key the dict does not hold
Keys == {"x", "y"}
Absent == "absent"
EmptyArgs == [k \in Keys |-> Absent]

\* dict.update(new): keys of new overwrite, the others are retained
DictUpdate(d, new) == [k \in Keys |-> IF new[k] # Absent THEN new[k] ELSE d[k]]

ToolTypes == {"desktop", "browser", "vision", "other"}
ClientNames == {"desktop", "browser", "vision"}

\* mcp_clients handed to the constructor: the demo wires all three, the VPS
\* server wires none, a browser-only deployment wires one
ClientSets == {ClientNames, {"browser"}, {}}

\* one entry of plan["steps"]; has_args tells whether the "args" key is present
StepData ==
    [tool : ToolTypes, has_args : {FALSE}, args : {EmptyArgs}]
    \cup [tool : ToolTypes, has_args : {TRUE}, args : {[x |-> "v1", y |-> Absent]}]

Plans == UNION {[1..n -> StepData] : n \in 0..MaxSteps}

\* step_data.get("args", {})
GetArgs(step_data) == IF step_data.has_args THEN step_data.args ELSE EmptyArgs

\* what an awaited call_tool can do: return, raise an Exception, or be
\* cancelled at the suspension point (asyncio.CancelledError, a BaseException)
CallOutcomes == {"ok", "error", "cancelled"}

\* what the Diagnostic Service call of _self_debug can do.  kind:
\*   unreachable, timeout  messages.create raises (line 293)
\*   unparseable           the text is not JSON, or lacks a key that is read
\*   fix                   a parsed suggestion with its fix_strategy
\* works: whether the Tool Invoker would succeed if re-invoked as the fix says
\* the argument dicts a step can come to hold, and what a stub is keyed on
ArgDicts == [Keys -> {Absent, "v1", "v2"}]
StubKeys == ToolTypes \X ArgDicts

\* concurrent calls of _execute_plan that are told apart
Runs == {"a", "b"}

\* pattern labels an analysis can name in "patterns_observed"
Labels == {"p", "q"}

NoFix == [kind |-> "none", strategy |-> "none", new_args |-> EmptyArgs, works |-> FALSE]
DiagResponses ==
    [kind : {"unreachable", "timeout", "unparseable"}, strategy : {"none"},
     new_args : {EmptyArgs}, works : {FALSE}]
    \cup [kind : {"fix"}, strategy : {"retry", "alternative_approach", "skip"},
          new_args : {EmptyArgs}, works : BOOLEAN]
    \cup [kind : {"fix"}, strategy : {"modify_args"},
          new_args : {[x |-> "v2", y |-> Absent], [x |-> Absent, y |-> "v2"]}, works : BOOLEAN]

(* -------------------------------------------------------------- state    *)
VARIABLES
    plan,           \* plan["steps"], the input of _execute_plan
    mcp_clients,    \* names of the MCP clients that are wired
    pc,             \* position of the run in _execute_plan / _self_debug
    i,              \* index of the step the for loop is at
    task_steps,     \* self.task_steps: the TaskStep objects created so far
    results,        \* the local list `results`
    all_success,    \* the local flag `all_success`
    fixed,          \* value returned by _self_debug to the except handler
    result,         \* the dict _execute_plan returned
    exc,            \* the exception that left _execute_plan, "none" if none
    events,         \* on_step_update calls made, in order: <<step, status>>
    invoked,        \* steps whose call_tool was awaited, in order
    outcomes,       \* per started step, how its invocation ended
    snapshots,      \* take_screenshot calls made by _self_debug
    diag,           \* per step, the Diagnostic Service response it got
    recoveries,     \* per step, what _self_debug did: none, false, true, raised
    self_debug_calls, \* calls of _self_debug made (line 228)
    cancelled_at,   \* the await at which the session's cancellation arrived
    diag_calls,     \* messages.create calls made by _self_debug (line 293)
    \* deterministic stubs and a caller that runs the same plan twice
    deterministic,  \* the Tool Invoker and the Diagnostic Service are stubs
    tool_stub,      \* per tool and arguments, the outcome the stub has given
    diag_stub,      \* per tool and arguments, the response the stub has given
    run,            \* which call of _execute_plan on the plan object this is
    first_events,   \* on_step_update calls of the first call
    first_result,   \* the dict the first call returned
    \* concurrent calls of _execute_plan on one orchestrator
    shared_steps,   \* self.task_steps: <<run, step>> of each TaskStep it holds
    run_pc,         \* per run, its position in _execute_plan
    run_len,        \* per run, len(plan["steps"])
    run_i,          \* per run, the index of the step its loop is at
    run_created,    \* per run, the TaskSteps it has created
    seen_steps,           \* per run, self.task_steps as it was when the run returned
    workflows,            \* per run, result["workflow"] of its reply
    \* LiveCVObserver
    observing,            \* self.observing
    observation_history,  \* self.observation_history (its first MaxObs entries)
    history_overflow,     \* more than MaxObs observations were appended
    pattern_db,           \* self.pattern_db: per label its "count", 0 if not a key
    reported,             \* per label, how often analyses have reported it
    observer_events,      \* callbacks the loop has called, in order
    analysis_log,         \* per cycle, what its analysis returned
    sampler_failed,       \* _capture_screen has raised
    cycle_parity,         \* parity of the number of cycles the loop has run
    opc,                  \* the task running start_observing
    o_cancel,             \* cancel() was called on that task
    stop_called,          \* stop_observing() was called after the task was created
    \* DemoExecutor.execute_step
    has_observer,         \* self.live_observer is set
    with_observation,     \* the with_observation argument
    num_actions,          \* len(step.actions)
    epc,                  \* position of execute_step
    e_pending,            \* exception execute_step is unwinding with
    action_idx,           \* the action the for loop is at
    obs_task,             \* observation_task is not None
    rpc,                  \* the task running record_clip
    debug_failures,       \* debug_failure calls made
    failed_action,        \* the action that raised into line 78, 0 if none
    fixes,                \* debug_result['fixes'], by likelihood
    top_fix,              \* the entry of fixes bound to top_fix, 0 if none
    session_cancelled,    \* the caller's task was cancelled
    hpc,                  \* position of the caller in ObserverSpec
    \* TutorialCreationAgent.create_tutorial (orchestrator.py)
    num_steps,            \* len(plan.steps)
    step_no,              \* the step the for loop is at
    clips,                \* len(clips)
    tpc,                  \* position of create_tutorial
    \* the asyncio event loop under execute_step and the observer
    loop_running,         \* the coroutine the loop's thread is running
    lo_pc,                \* position of start_observing
    lo_due,               \* the loop has start_observing to resume
    le_pc,                \* position of execute_step
    le_due,               \* the loop has execute_step to resume
    lo_observing,         \* self.observing
    lo_cycles,            \* cycles start_observing has completed
    le_actions            \* actions execute_step has completed

driver_vars == <<plan, mcp_clients, pc, i, task_steps, results, all_success, fixed,
                 result, exc, events, invoked, outcomes, snapshots, diag,
                 recoveries, self_debug_calls, cancelled_at, diag_calls,
                 tool_stub, diag_stub>>

\* the caller of _execute_plan
caller_vars == <<deterministic, run, first_events, first_result>>

\* the orchestrator as concurrent requests share it
shared_vars == <<shared_steps, run_pc, run_len, run_i, run_created, seen_steps,
                 workflows>>

\* what _learn_patterns writes, and the record of what it was given
learned == <<pattern_db, reported>>

\* the record of what the cycles were given and what they called
noted == <<observer_events, analysis_log>>

observer_vars == <<observing, observation_history, history_overflow, cycle_parity,
                   learned, noted, sampler_failed, opc, o_cancel, stop_called>>

\* what the handler of lines 78-100 was entered for and what it chose
handled == <<failed_action, fixes, top_fix>>

executor_vars == <<has_observer, with_observation, num_actions, epc, e_pending,
                   action_idx, obs_task, rpc, debug_failures, handled,
                   session_cancelled>>

\* create_tutorial over the steps of its plan
tutorial_vars == <<num_steps, step_no, clips, tpc>>

\* the event loop the observer and execute_step run on
loop_vars == <<loop_running, lo_pc, lo_due, le_pc, le_due, lo_observing, lo_cycles,
               le_actions>>

vars == <<driver_vars, caller_vars, shared_vars, observer_vars, executor_vars, hpc,
          tutorial_vars, loop_vars>>

N == Len(plan)

NoResult == [returned |-> FALSE, success |-> FALSE, steps |-> <<>>]

\* TaskStep(...) as constructed at lines 172-177; status defaults to "pending"
NewTaskStep(step_data) ==
    [tool |-> step_data.tool, args |-> GetArgs(step_data),
     status |-> "pending", has_result |-> FALSE, has_error |-> FALSE]

\* status of the k-th step of the plan: a step the loop has not reached has
\* no TaskStep yet and counts as pending (the dataclass default)
StatusOf(k) == IF k <= Len(task_steps) THEN task_steps[k].status ELSE "pending"

\* LiveCVObserver.__init__ (lines 47-61); no task exists yet
ObserverInit ==
    /\ observing = FALSE
    /\ observation_history = <<>>
    /\ history_overflow = FALSE
    /\ pattern_db = [l \in Labels |-> 0]
    /\ reported = [l \in Labels |-> 0]
    /\ observer_events = <<>>
    /\ analysis_log = <<>>
    /\ sampler_failed = FALSE
    /\ cycle_parity = 0
    /\ opc = "none"
    /\ o_cancel = FALSE
    /\ stop_called = FALSE

\* execute_step has not been called
ExecutorIdle ==
    /\ has_observer = FALSE
    /\ with_observation = FALSE
    /\ num_actions = 0
    /\ epc = "idle"
    /\ e_pending = "none"
    /\ action_idx = 1
    /\ obs_task = FALSE
    /\ rpc = "none"
    /\ debug_failures = 0
    /\ failed_action = 0
    /\ fixes = <<>>
    /\ top_fix = 0
    /\ session_cancelled = FALSE

\* no stub has been asked anything
StubsUnset ==
    /\ tool_stub = [key \in StubKeys |-> "unset"]
    /\ diag_stub = [key \in StubKeys |-> NoFix]

\* a caller that calls _execute_plan once, against the live services
CallerOnce ==
    /\ deterministic = FALSE
    /\ run = 1
    /\ first_events = <<>>
    /\ first_result = NoResult

\* no workflow was generated for the request
NoWorkflow == [generated |-> FALSE, nodes |-> {}, connections |-> {}]

\* create_tutorial is at the only step of a one-step plan
TutorialIdle ==
    /\ num_steps = 1
    /\ step_no = 1
    /\ clips = 0
    /\ tpc = "executing"

\* nothing is scheduled on the event loop
LoopIdle ==
    /\ loop_running = "none"
    /\ lo_pc = "none"
    /\ lo_due = FALSE
    /\ le_pc = "none"
    /\ le_due = FALSE
    /\ lo_observing = FALSE
    /\ lo_cycles = 0
    /\ le_actions = 0

\* no concurrent request has been made
SharedIdle ==
    /\ shared_steps = <<>>
    /\ run_pc = [r \in Runs |-> "idle"]
    /\ run_len = [r \in Runs |-> 0]
    /\ run_i = [r \in Runs |-> 1]
    /\ run_created = [r \in Runs |-> 0]
    /\ seen_steps = [r \in Runs |-> <<>>]
    /\ workflows = [r \in Runs |-> NoWorkflow]

\* _execute_plan is about to be called with plan
DriverStart ==
    /\ plan \in Plans
    /\ mcp_clients \in ClientSets
    /\ pc = "start"
    /\ i = 1
    /\ task_steps = <<>>
    /\ results = <<>>
    /\ all_success = TRUE
    /\ fixed = FALSE
    /\ result = NoResult
    /\ exc = "none"
    /\ events = <<>>
    /\ invoked = <<>>
    /\ outcomes = <<>>
    /\ snapshots = 0
    /\ diag = [k \in 1..MaxSteps |-> NoFix]
    /\ recoveries = [k \in 1..MaxSteps |-> "none"]
    /\ self_debug_calls = 0
    /\ cancelled_at = "none"
    /\ diag_calls = 0
    /\ StubsUnset

Init ==
    /\ ObserverInit
    /\ ExecutorIdle
    /\ hpc = "idle"
    /\ DriverStart
    /\ CallerOnce
    /\ SharedIdle
    /\ TutorialIdle
    /\ LoopIdle

(* ------------------------------------------------------------ actions    *)
\* history of the run, read by the properties only
history == <<invoked, outcomes, snapshots, diag, recoveries, self_debug_calls,
             cancelled_at, diag_calls>>

\* what the stubs have answered so far
stubs == <<tool_stub, diag_stub>>

\* lines 166-168
ExecutePlanEnter ==
    /\ UNCHANGED <<caller_vars, shared_vars, tutorial_vars, loop_vars, observer_vars, executor_vars, hpc>>
    /\ pc = "start"
    /\ task_steps' = <<>>
    /\ results' = <<>>
    /\ all_success' = TRUE
    /\ pc' = "loop"
    /\ UNCHANGED <<plan, mcp_clients, i, fixed, result, exc, events, history, stubs>>

\* lines 189-199: which client the step is dispatched to; "ValueError" for an
\* unknown tool type, "RuntimeError" when the client is not wired
Dispatch(step_data) ==
    IF step_data.tool \notin ClientNames THEN "ValueError"
    ELSE IF step_data.tool \notin mcp_clients THEN "RuntimeError"
    ELSE "client"

\* lines 170-199: the loop takes the next step, creates its TaskStep, marks it
\* running and picks the client
StepBegin ==
    /\ UNCHANGED <<caller_vars, shared_vars, tutorial_vars, loop_vars, observer_vars, executor_vars, hpc>>
    /\ pc = "loop"
    /\ i <= N
    /\ task_steps' = Append(task_steps, [NewTaskStep(plan[i]) EXCEPT !.status = "running"])
    /\ events' = Append(events, <<i, "running">>)
    /\ IF Dispatch(plan[i]) = "client"
       THEN /\ pc' = "call_tool"
            /\ outcomes' = outcomes
       ELSE /\ pc' = "except"
            /\ outcomes' = Append(outcomes, Dispatch(plan[i]))
    /\ UNCHANGED <<plan, mcp_clients, i, results, all_success, fixed, result, exc,
                   invoked, snapshots, diag, recoveries, self_debug_calls,
                   cancelled_at, diag_calls, stubs>>

\* a live service answers anything; a stub answers a question it was asked
\* before as it did then (and is never cancelled)
ToolOutcomes(tool, args) ==
    IF ~deterministic THEN CallOutcomes
    ELSE IF tool_stub[<<tool, args>>] = "unset" THEN {"ok", "error"}
    ELSE {tool_stub[<<tool, args>>]}

DiagChoices(tool, args) ==
    IF ~deterministic THEN DiagResponses
    ELSE IF diag_stub[<<tool, args>>] = NoFix THEN DiagResponses
    ELSE {diag_stub[<<tool, args>>]}

StubAnswer(stub, tool, args, answer) ==
    IF deterministic THEN [stub EXCEPT ![<<tool, args>>] = answer] ELSE stub

StepCompleted_NoResult(steps, k) ==
    [steps EXCEPT ![k].status = "completed"]

StepCompleted_StaysRunning(steps, k) ==
    [steps EXCEPT ![k].has_result = TRUE]

\* lines 205-206: the call returned
StepCompleted(steps, k) ==
    [steps EXCEPT ![k].has_result = TRUE, ![k].status = "completed"]

\* lines 203-216: await call_tool and what follows its return
CallTool ==
    /\ UNCHANGED <<caller_vars, shared_vars, tutorial_vars, loop_vars, observer_vars, executor_vars, hpc>>
    /\ pc = "call_tool"
    /\ invoked' = Append(invoked, i)
    /\ \E o \in ToolOutcomes(plan[i].tool, GetArgs(plan[i])) :
        /\ outcomes' = Append(outcomes, o)
        /\ tool_stub' = StubAnswer(tool_stub, plan[i].tool, GetArgs(plan[i]), o)
        /\ CASE o = "ok" ->
                   /\ task_steps' = StepCompleted(task_steps, i)
                   /\ events' = Append(events, <<i, "completed">>)
                   /\ results' = Append(results, [step |-> i, success |-> TRUE])
                   /\ i' = i + 1
                   /\ pc' = "loop"
                   /\ UNCHANGED <<exc, cancelled_at>>
             [] o = "error" ->
                   /\ pc' = "except"
                   /\ UNCHANGED <<task_steps, events, results, i, exc, cancelled_at>>
             [] o = "cancelled" ->
                   \* CancelledError is no Exception: line 218 does not catch it
                   /\ pc' = "raised"
                   /\ exc' = "CancelledError"
                   /\ cancelled_at' = "call_tool"
                   /\ UNCHANGED <<task_steps, events, results, i>>
    /\ UNCHANGED <<plan, mcp_clients, all_success, fixed, result, snapshots, diag,
                   recoveries, self_debug_calls, diag_calls, diag_stub>>

ExceptHandler_KeepsFlag ==
    /\ UNCHANGED <<caller_vars, shared_vars, tutorial_vars, loop_vars, observer_vars, executor_vars, hpc>>
    /\ pc = "except"
    /\ task_steps' = [task_steps EXCEPT ![i].status = "error", ![i].has_error = TRUE]
    /\ events' = Append(events, <<i, "error">>)
    /\ self_debug_calls' = self_debug_calls + 1
    /\ pc' = "debug_screenshot"
    /\ UNCHANGED <<plan, mcp_clients, i, results, all_success, fixed, result, exc,
                   invoked, outcomes, snapshots, diag, recoveries, cancelled_at,
                   diag_calls, stubs>>

ExceptHandler_NoEvent ==
    /\ UNCHANGED <<caller_vars, shared_vars, tutorial_vars, loop_vars, observer_vars, executor_vars, hpc>>
    /\ pc = "except"
    /\ task_steps' = [task_steps EXCEPT ![i].status = "error", ![i].has_error = TRUE]
    /\ all_success' = FALSE
    /\ self_debug_calls' = self_debug_calls + 1
    /\ pc' = "debug_screenshot"
    /\ UNCHANGED <<plan, mcp_clients, i, results, fixed, result, exc, events, invoked,
                   outcomes, snapshots, diag, recoveries, cancelled_at, diag_calls,
                   stubs>>

\* lines 218-228: the except handler up to the call of _self_debug
ExceptHandler ==
    /\ UNCHANGED <<caller_vars, shared_vars, tutorial_vars, loop_vars, observer_vars, executor_vars, hpc>>
    /\ pc = "except"
    /\ task_steps' = [task_steps EXCEPT ![i].status = "error", ![i].has_error = TRUE]
    /\ all_success' = FALSE
    /\ events' = Append(events, <<i, "error">>)
    /\ self_debug_calls' = self_debug_calls + 1
    /\ pc' = "debug_screenshot"
    /\ UNCHANGED <<plan, mcp_clients, i, results, fixed, result, exc, invoked,
                   outcomes, snapshots, diag, recoveries, cancelled_at, diag_calls,
                   stubs>>

\* lines 253-260: best-effort screenshot; the bare except swallows every
\* outcome of the call, a cancellation included
SelfDebugScreenshot ==
    /\ UNCHANGED <<caller_vars, shared_vars, tutorial_vars, loop_vars, observer_vars, executor_vars, hpc>>
    /\ pc = "debug_screenshot"
    /\ IF "desktop" \in mcp_clients
       THEN /\ snapshots' = snapshots + 1
            /\ \E o \in CallOutcomes :
                 cancelled_at' = IF o = "cancelled" THEN "take_screenshot"
                                 ELSE cancelled_at
       ELSE UNCHANGED <<snapshots, cancelled_at>>
    /\ pc' = "debug_diagnose"
    /\ UNCHANGED <<plan, mcp_clients, i, task_steps, results, all_success, fixed,
                   result, exc, events, invoked, outcomes, diag, recoveries,
                   self_debug_calls, diag_calls, stubs>>

\* lines 301-335: the value _self_debug returns for a response that arrived
SelfDebugReturn(r) ==
    CASE r.kind = "unparseable" -> FALSE
      [] r.strategy = "retry" -> FALSE
      [] r.strategy = "modify_args" -> FALSE
      [] r.strategy = "alternative_approach" -> FALSE
      [] OTHER -> FALSE

\* line 320: failed_step.args.update(fix["new_args"])
SelfDebugArgs(args, r) ==
    IF r.kind = "fix" /\ r.strategy = "modify_args"
    THEN DictUpdate(args, r.new_args)
    ELSE args

\* lines 288-335: the Diagnostic Service call and the dispatch on the fix.
\* messages.create (line 293) stands outside the try of line 301, so what it
\* raises leaves _self_debug and, from inside the except handler, _execute_plan.
\* The TaskStep's args dict is the plan's own dict when the step has "args"
\* (line 175), so the update of line 320 shows in the plan too.
SelfDebugDiagnose ==
    /\ UNCHANGED <<caller_vars, shared_vars, tutorial_vars, loop_vars, observer_vars, executor_vars, hpc>>
    /\ pc = "debug_diagnose"
    /\ diag_calls' = diag_calls + 1
    /\ \E r \in DiagChoices(task_steps[i].tool, task_steps[i].args) :
        /\ diag' = [diag EXCEPT ![i] = r]
        /\ diag_stub' = StubAnswer(diag_stub, task_steps[i].tool, task_steps[i].args, r)
        /\ IF r.kind \in {"unreachable", "timeout"}
           THEN /\ pc' = "raised"
                /\ exc' = "APIError"
                /\ recoveries' = [recoveries EXCEPT ![i] = "raised"]
                /\ UNCHANGED <<task_steps, plan, fixed>>
           ELSE /\ task_steps' = [task_steps EXCEPT
                                    ![i].args = SelfDebugArgs(task_steps[i].args, r)]
                /\ plan' = IF plan[i].has_args
                           THEN [plan EXCEPT ![i].args = SelfDebugArgs(plan[i].args, r)]
                           ELSE plan
                /\ fixed' = SelfDebugReturn(r)
                /\ recoveries' = [recoveries EXCEPT
                                    ![i] = IF SelfDebugReturn(r) THEN "true" ELSE "false"]
                /\ pc' = "after_debug"
                /\ exc' = exc
    /\ UNCHANGED <<mcp_clients, i, results, all_success, result, events, invoked,
                   outcomes, snapshots, self_debug_calls, cancelled_at, tool_stub>>

AfterSelfDebug_Reinvokes ==
    /\ UNCHANGED <<caller_vars, shared_vars, tutorial_vars, loop_vars, observer_vars, executor_vars, hpc>>
    /\ pc = "after_debug"
    /\ IF fixed
       THEN /\ task_steps' = [task_steps EXCEPT ![i].status = "completed"]
            /\ all_success' = TRUE
            /\ events' = Append(events, <<i, "completed">>)
            /\ i' = i + 1
            /\ pc' = "loop"
       ELSE /\ pc' = IF diag[i].strategy = "retry" /\ Len(invoked) <= N
                     THEN "call_tool" ELSE "return"
            /\ UNCHANGED <<task_steps, all_success, events, i>>
    /\ UNCHANGED <<plan, mcp_clients, results, fixed, result, exc, history, stubs>>

AfterSelfDebug_DiagnosesAgain ==
    /\ UNCHANGED <<caller_vars, shared_vars, tutorial_vars, loop_vars, observer_vars, executor_vars, hpc>>
    /\ pc = "after_debug"
    /\ IF fixed
       THEN /\ task_steps' = [task_steps EXCEPT ![i].status = "completed"]
            /\ all_success' = TRUE
            /\ events' = Append(events, <<i, "completed">>)
            /\ i' = i + 1
            /\ pc' = "loop"
       ELSE /\ pc' = IF diag[i].kind = "unparseable" /\ diag_calls <= self_debug_calls
                     THEN "debug_diagnose" ELSE "return"
            /\ UNCHANGED <<task_steps, all_success, events, i>>
    /\ UNCHANGED <<plan, mcp_clients, results, fixed, result, exc, history, stubs>>

AfterSelfDebug_NoBreak ==
    /\ UNCHANGED <<caller_vars, shared_vars, tutorial_vars, loop_vars, observer_vars, executor_vars, hpc>>
    /\ pc = "after_debug"
    /\ IF fixed
       THEN /\ task_steps' = [task_steps EXCEPT ![i].status = "completed"]
            /\ all_success' = TRUE
            /\ events' = Append(events, <<i, "completed">>)
       ELSE UNCHANGED <<task_steps, all_success, events>>
    /\ i' = i + 1
    /\ pc' = "loop"
    /\ UNCHANGED <<plan, mcp_clients, results, fixed, result, exc, history, stubs>>

\* lines 230-239: back in the except handler with the value of _self_debug
AfterSelfDebug ==
    /\ UNCHANGED <<caller_vars, shared_vars, tutorial_vars, loop_vars, observer_vars, executor_vars, hpc>>
    /\ pc = "after_debug"
    /\ IF fixed
       THEN /\ task_steps' = [task_steps EXCEPT ![i].status = "completed"]
            /\ all_success' = TRUE
            /\ events' = Append(events, <<i, "completed">>)
            /\ i' = i + 1
            /\ pc' = "loop"
       ELSE /\ pc' = "return"
            /\ UNCHANGED <<task_steps, all_success, events, i>>
    /\ UNCHANGED <<plan, mcp_clients, results, fixed, result, exc, history, stubs>>

\* lines 241-245: the loop is over (exhausted or left by break)
ExecutePlanReturn ==
    /\ UNCHANGED <<caller_vars, shared_vars, tutorial_vars, loop_vars, observer_vars, executor_vars, hpc>>
    /\ \/ pc = "loop" /\ i > N
       \/ pc = "return"
    /\ result' = [returned |-> TRUE, success |-> all_success, steps |-> results]
    /\ pc' = "returned"
    /\ UNCHANGED <<plan, mcp_clients, i, task_steps, results, all_success, fixed,
                   exc, events, history, stubs>>

Next ==
    \/ ExecutePlanEnter
    \/ StepBegin
    \/ CallTool
    \/ ExceptHandler
    \/ SelfDebugScreenshot
    \/ SelfDebugDiagnose
    \/ AfterSelfDebug
    \/ ExecutePlanReturn

Spec == Init /\ [][Next]_vars

(* ------------------------------------ the same plan object executed twice *)
\* the caller keeps what the first call reported and calls _execute_plan
\* again with the plan object it passed before (the call of line 73 made a
\* second time); every local of the first call is gone
Rerun ==
    /\ UNCHANGED <<shared_vars, tutorial_vars, loop_vars, observer_vars, executor_vars, hpc>>
    /\ deterministic
    /\ run = 1
    /\ pc = "returned"
    /\ run' = 2
    /\ first_events' = events
    /\ first_result' = result
    /\ pc' = "start"
    /\ i' = 1
    /\ fixed' = FALSE
    /\ result' = NoResult
    /\ events' = <<>>
    /\ invoked' = <<>>
    /\ outcomes' = <<>>
    /\ snapshots' = 0
    /\ diag' = [k \in 1..MaxSteps |-> NoFix]
    /\ recoveries' = [k \in 1..MaxSteps |-> "none"]
    /\ self_debug_calls' = 0
    /\ cancelled_at' = "none"
    /\ diag_calls' = 0
    /\ UNCHANGED <<plan, mcp_clients, task_steps, results, all_success, exc, stubs,
                   deterministic>>

\* the services are stubs whose answer depends on tool and arguments only
RerunInit ==
    /\ ObserverInit
    /\ ExecutorIdle
    /\ hpc = "idle"
    /\ DriverStart
    /\ Len(plan) < MaxSteps
    /\ SharedIdle
    /\ TutorialIdle
    /\ LoopIdle
    /\ deterministic = TRUE
    /\ run = 1
    /\ first_events = <<>>
    /\ first_result = NoResult

RerunNext ==
    \/ Next
    \/ Rerun

RerunSpec == RerunInit /\ [][RerunNext]_vars

(* ------------------------------------------------------ LiveCVObserver   *)
\* _capture_screen (lines 127-131) returns the frame or raises what mss raises
CaptureOutcomes == {"ok", "error"}

\* "patterns_observed" lists an analysis can carry: none, the same label
\* twice, two labels
PatternReports == {<<>>, <<"p", "p">>, <<"p", "q">>}

\* what _claude_analyze_screen (lines 213-309) returns.  failed: the request
\* or the parsing of the reply raised and the handler of lines 300-309
\* returned its default dict ("Analysis failed", no next action, confidence
\* 0.0, no issues, no debug suggestions); _learn_patterns is the last
\* statement of the try block, so a failed analysis has learned nothing
AnalysisFailed ==
    [failed |-> TRUE, next_action |-> FALSE, debug_suggestions |-> FALSE,
     issues |-> FALSE, patterns |-> <<>>]

\* an analysis that names issues ("issues_detected") and suggests nothing
IssuesOnly ==
    [failed |-> FALSE, next_action |-> FALSE, debug_suggestions |-> FALSE,
     issues |-> TRUE, patterns |-> <<>>]

\* the analyses explored: a next action with and without debug suggestions
\* (then the issues they are for are named too), issues alone, every pattern
\* list (none of these suggests anything), the failure
Analyses ==
    {[failed |-> FALSE, next_action |-> TRUE, debug_suggestions |-> d,
      issues |-> d, patterns |-> <<>>] : d \in BOOLEAN}
    \cup {IssuesOnly}
    \cup [failed : {FALSE}, next_action : {FALSE}, debug_suggestions : {FALSE},
          issues : {FALSE}, patterns : PatternReports]
    \cup {AnalysisFailed}

\* the ObservationResult built at lines 158-166; timestamp is the position of
\* the capture in the session, analysis_failed says claude_analysis is the
\* text "Analysis failed"
Observation(a, t) ==
    [timestamp |-> t, analysis_failed |-> a.failed,
     next_action |-> a.next_action, debug_suggestions |-> a.debug_suggestions]

LearnPatterns_OncePerAnalysis(db, patterns) ==
    [l \in Labels |-> IF \E n \in 1..Len(patterns) : patterns[n] = l
                      THEN db[l] + 1 ELSE db[l]]

\* _learn_patterns (lines 311-322): a label that is no key is inserted with
\* count 1, a label that is a key has its count incremented; once per
\* element of the list
RECURSIVE LearnPatterns(_, _)
LearnPatterns(db, patterns) ==
    IF patterns = <<>>
    THEN db
    ELSE LET pattern == Head(patterns)
             db1 == IF db[pattern] = 0
                    THEN [db EXCEPT ![pattern] = 1]
                    ELSE [db EXCEPT ![pattern] = db[pattern] + 1]
         IN LearnPatterns(db1, Tail(patterns))

\* occurrences of label l in a list of labels
RECURSIVE Occurrences(_, _)
Occurrences(patterns, l) ==
    IF patterns = <<>>
    THEN 0
    ELSE (IF Head(patterns) = l THEN 1 ELSE 0) + Occurrences(Tail(patterns), l)

ObserverDone == opc \in {"done", "failed", "cancelled"}

\* timestamp of observation_history[-1], 0 for an empty history
LatestOf(list) == IF list = <<>> THEN 0 ELSE list[Len(list)].timestamp

\* one callback call: which callback, the Observation it was called for, and
\* the Observation that was the latest of the history when it was called
CallbackCall(name, about, latest) == [event |-> name, about |-> about, latest |-> latest]

\* lines 104-112: the callbacks of one cycle, all three registered
\* (orchestrator.py registers on_suggestion and on_error_detected); each is
\* awaited before the next is called
CycleCallbacks(observation, latest) ==
    <<CallbackCall("observation", observation.timestamp, latest)>>
    \o (IF observation.next_action
        THEN <<CallbackCall("suggestion", observation.timestamp, latest)>> ELSE <<>>)
    \o (IF observation.debug_suggestions
        THEN <<CallbackCall("error", observation.timestamp, latest)>> ELSE <<>>)

Notify_BeforeAppend(before, after, observation) ==
    CycleCallbacks(observation, LatestOf(before))

\* lines 102-112: the callbacks run after the append, so the history they can
\* read is the one that holds the new Observation
Notify(before, after, observation) ==
    CycleCallbacks(observation, LatestOf(after))

ListAppend_Front(list, observation) == <<observation>> \o list

\* line 102: observation_history.append(observation)
ListAppend(list, observation) == Append(list, observation)

\* lines 96-102 of one cycle whose capture succeeded: the analysis (which
\* learns the patterns it reports, line 296), then the append.  Content is
\* tracked for the first MaxObs cycles of a session.
AppendObservation(a) ==
    IF Len(observation_history) < MaxObs
    THEN /\ observation_history' =
                ListAppend(observation_history,
                           Observation(a, Len(observation_history) + 1))
         /\ pattern_db' = LearnPatterns(pattern_db, a.patterns)
         /\ reported' = [l \in Labels |-> reported[l] + Occurrences(a.patterns, l)]
         /\ analysis_log' = Append(analysis_log, [a EXCEPT !.patterns = <<>>])
         /\ observer_events' =
                observer_events
                \o Notify(observation_history, observation_history',
                          Observation(a, Len(observation_history) + 1))
         /\ UNCHANGED history_overflow
    ELSE /\ history_overflow' = TRUE
         /\ UNCHANGED <<observation_history, learned, noted>>

\* lines 120-121: the finally of start_observing
ObserverFinally(state) ==
    /\ observing' = FALSE
    /\ opc' = state

\* lines 94-121: the loop from its head, with self.observing = flag, up to
\* the next suspension (the sleep of line 115) or to the end of the task.
\* The callbacks wired by the repository only print, so a cycle has no other
\* suspension point.
ObserverLoop(flag) ==
    IF flag
    THEN \E c \in CaptureOutcomes, a \in Analyses :
            IF c = "error"
            THEN /\ ObserverFinally("failed")
                 /\ sampler_failed' = TRUE
                 /\ UNCHANGED <<observation_history, history_overflow, cycle_parity, learned, noted>>
            ELSE /\ AppendObservation(a)
                 /\ UNCHANGED sampler_failed
                 /\ cycle_parity' = 1 - cycle_parity
                 /\ observing' = flag
                 /\ opc' = "sleeping"
    ELSE /\ ObserverFinally("done")
         /\ UNCHANGED <<observation_history, history_overflow, cycle_parity, learned, noted, sampler_failed>>

\* lines 81-115: the first run of the task: a task cancelled before it ran
\* never enters the coroutine; creating the mss instance may raise before the
\* try; otherwise self.observing = True and the loop starts
ObserverStart ==
    /\ opc = "created"
    /\ IF o_cancel
       THEN /\ opc' = "cancelled"
            /\ UNCHANGED <<observing, observation_history, history_overflow, cycle_parity, learned, noted, sampler_failed>>
       ELSE \/ /\ opc' = "failed"
               /\ UNCHANGED <<observing, observation_history, history_overflow, cycle_parity, learned, noted, sampler_failed>>
            \/ ObserverLoop(TRUE)
    /\ UNCHANGED <<o_cancel, stop_called, driver_vars, caller_vars, shared_vars, tutorial_vars, loop_vars, executor_vars, hpc>>

ObserverWake_IgnoresFlag ==
    /\ opc = "sleeping"
    /\ ~o_cancel
    /\ ObserverLoop(TRUE)
    /\ UNCHANGED <<o_cancel, stop_called, driver_vars, caller_vars, shared_vars, tutorial_vars, loop_vars, executor_vars, hpc>>

\* lines 115, 94: the sleep is over and the while condition is read again
ObserverWake ==
    /\ opc = "sleeping"
    /\ ~o_cancel
    /\ ObserverLoop(observing)
    /\ UNCHANGED <<o_cancel, stop_called, driver_vars, caller_vars, shared_vars, tutorial_vars, loop_vars, executor_vars, hpc>>

\* lines 115-121: CancelledError is thrown at the sleep; it is no
\* KeyboardInterrupt, so only the finally runs
ObserverCancelled ==
    /\ opc = "sleeping"
    /\ o_cancel
    /\ ObserverFinally("cancelled")
    /\ UNCHANGED <<observation_history, history_overflow, cycle_parity, learned, noted, sampler_failed, o_cancel, stop_called,
                   driver_vars, caller_vars, shared_vars, tutorial_vars, loop_vars, executor_vars, hpc>>

(* ------------------------------------------------- DemoExecutor.execute_step *)
ExecDone == epc \in {"returned", "raised", "cancelled"}

\* lines 102-106, entered with the exception the try block is left with:
\* stop_observing() and the wait for the task, only when a task was created
ExecFinally(pending) ==
    IF obs_task
    THEN /\ observing' = FALSE
         /\ stop_called' = TRUE
         /\ epc' = "await_observer"
         /\ e_pending' = pending
    ELSE /\ epc' = CASE pending = "none" -> "await_recording"
                     [] pending = "CancelledError" -> "cancelled"
                     [] OTHER -> "raised"
         /\ e_pending' = pending
         /\ UNCHANGED <<observing, stop_called>>

\* the same, with the exception of the action raised again
AfterHandler_Reraised == "ActionError"

\* lines 78-100: the exception the try statement is left with when the
\* handler has run to its end: none, the handler has no raise
AfterHandler == "none"

\* lines 63-71: the recording task is created, then the second sleep
ExecStartRecording ==
    /\ rpc' = "created"
    /\ epc' = "sleep2"

\* lines 51-60: the call up to its first suspension
ExecuteStepEnter ==
    /\ epc = "idle"
    /\ IF with_observation /\ has_observer
       THEN /\ obs_task' = TRUE
            /\ opc' = "created"
            /\ o_cancel' = FALSE
            /\ epc' = "sleep1"
            /\ UNCHANGED rpc
       ELSE /\ ExecStartRecording
            /\ UNCHANGED <<obs_task, opc, o_cancel>>
    /\ UNCHANGED <<observing, observation_history, history_overflow, cycle_parity, learned, noted, sampler_failed,
                   stop_called,
                   has_observer, with_observation, num_actions, e_pending,
                   action_idx, debug_failures, handled, session_cancelled, driver_vars, caller_vars, shared_vars, tutorial_vars, loop_vars, hpc>>

\* lines 60-71: the sleep of line 60 is over.  The observation task was made
\* ready before the sleep began, so it has had its first run.
ExecSleep1Wake ==
    /\ epc = "sleep1"
    /\ opc # "created"
    /\ ExecStartRecording
    /\ UNCHANGED <<observer_vars, has_observer, with_observation, num_actions,
                   e_pending, action_idx, obs_task, debug_failures, handled,
                   session_cancelled, driver_vars, caller_vars, shared_vars, tutorial_vars, loop_vars, hpc>>

\* lines 71-76: the sleep of line 71 is over and the try block is entered
ExecSleep2Wake ==
    /\ epc = "sleep2"
    /\ rpc # "created"
    /\ epc' = "actions"
    /\ action_idx' = 1
    /\ UNCHANGED <<observer_vars, has_observer, with_observation, num_actions,
                   e_pending, obs_task, rpc, debug_failures, handled, session_cancelled,
                   driver_vars, caller_vars, shared_vars, tutorial_vars, loop_vars, hpc>>

\* lines 60, 71: the caller's task is cancelled during one of the two sleeps
\* that precede the try block: CancelledError leaves execute_step at once
ExecCancelledBeforeTry ==
    /\ ~session_cancelled
    /\ \/ epc = "sleep1" /\ opc # "created"
       \/ epc = "sleep2" /\ rpc # "created"
    /\ session_cancelled' = TRUE
    /\ epc' = "cancelled"
    /\ e_pending' = "CancelledError"
    /\ UNCHANGED <<observer_vars, has_observer, with_observation, num_actions,
                   action_idx, obs_task, rpc, debug_failures, handled, driver_vars, caller_vars, shared_vars, tutorial_vars, loop_vars, hpc>>

\* lines 75-106: one action of the step is awaited.  It returns, or raises
\* an Exception that the handler of lines 78-100 swallows after asking the
\* observer for a diagnosis (taking the screenshot for it may itself raise);
\* with the actions exhausted the try block ends.  Each way the finally runs.
\* live_cv_observer.py lines 356-365: likelihoods the diagnosis may carry
Likelihoods == {40, 95}

MaxFixes == 2

\* lines 402-418: what debug_failure can return under 'fixes'; the empty
\* list is also what its except branch returns
FixLists == UNION {[1..n -> Likelihoods] : n \in 0..MaxFixes}

\* lines 96-97: top_fix = debug_result['fixes'][0], when the list is not empty
TopFix(returned) == IF returned = <<>> THEN 0 ELSE 1

ExecAction ==
    /\ epc = "actions"
    /\ IF action_idx > num_actions
       THEN /\ ExecFinally("none")
            /\ UNCHANGED <<action_idx, debug_failures, handled>>
       ELSE \/ /\ action_idx' = action_idx + 1
               /\ UNCHANGED <<epc, e_pending, observing, stop_called, debug_failures,
                              handled>>
            \/ /\ has_observer
               /\ debug_failures' = debug_failures + 1
               /\ failed_action' = action_idx
               /\ \E returned \in FixLists :
                      /\ fixes' = returned
                      /\ top_fix' = TopFix(returned)
               /\ ExecFinally(AfterHandler)
               /\ UNCHANGED action_idx
            \/ /\ has_observer
               /\ failed_action' = action_idx
               /\ ExecFinally("Exception")
               /\ UNCHANGED <<action_idx, debug_failures, fixes, top_fix>>
            \/ /\ ~has_observer
               /\ failed_action' = action_idx
               /\ ExecFinally(AfterHandler)
               /\ UNCHANGED <<action_idx, debug_failures, fixes, top_fix>>
    /\ UNCHANGED <<observation_history, history_overflow, cycle_parity, learned, noted, sampler_failed, opc, o_cancel,
                   has_observer, with_observation, num_actions, obs_task, rpc,
                   session_cancelled, driver_vars, caller_vars, shared_vars, tutorial_vars, loop_vars, hpc>>

\* lines 76, 102: the caller's task is cancelled while an action is awaited;
\* CancelledError skips the handler of line 78 and reaches the finally
ExecCancelledInAction ==
    /\ epc = "actions"
    /\ action_idx <= num_actions
    /\ ~session_cancelled
    /\ session_cancelled' = TRUE
    /\ ExecFinally("CancelledError")
    /\ UNCHANGED <<observation_history, history_overflow, cycle_parity, learned, noted, sampler_failed, opc, o_cancel,
                   has_observer, with_observation, num_actions, action_idx,
                   obs_task, rpc, debug_failures, handled, driver_vars, caller_vars, shared_vars, tutorial_vars, loop_vars, hpc>>

\* the same, without waiting for the task to be done
ExecObserverJoined_NoWait ==
    /\ epc = "await_observer"
    /\ epc' = CASE e_pending = "none" -> "await_recording"
                [] e_pending = "CancelledError" -> "cancelled"
                [] OTHER -> "raised"
    /\ UNCHANGED <<observer_vars, has_observer, with_observation, num_actions,
                   e_pending, action_idx, obs_task, rpc, debug_failures, handled,
                   session_cancelled, driver_vars, caller_vars, shared_vars,
                   tutorial_vars, loop_vars, hpc>>

\* line 106: await observation_task returns or raises what the task raised;
\* an exception the try block was left with goes on unwinding
ExecObserverJoined ==
    /\ epc = "await_observer"
    /\ ObserverDone
    /\ epc' = CASE opc = "failed" -> "raised"
                [] opc = "cancelled" -> "cancelled"
                [] e_pending = "none" -> "await_recording"
                [] e_pending = "CancelledError" -> "cancelled"
                [] OTHER -> "raised"
    /\ UNCHANGED <<observer_vars, has_observer, with_observation, num_actions,
                   e_pending, action_idx, obs_task, rpc, debug_failures, handled,
                   session_cancelled, driver_vars, caller_vars, shared_vars, tutorial_vars, loop_vars, hpc>>

\* line 106: the caller's task is cancelled while it awaits the observation
\* task: the cancellation is passed on to that task
ExecCancelledAtJoin ==
    /\ epc = "await_observer"
    /\ ~ObserverDone
    /\ ~session_cancelled
    /\ session_cancelled' = TRUE
    /\ o_cancel' = TRUE
    /\ UNCHANGED <<observing, observation_history, history_overflow, cycle_parity, learned, noted, sampler_failed, opc,
                   stop_called, has_observer, with_observation, num_actions, epc,
                   e_pending, action_idx, obs_task, rpc, debug_failures, handled,
                   driver_vars, caller_vars, shared_vars, tutorial_vars, loop_vars, hpc>>

\* lines 109-111: await recording_task, then return clip_path; a cancellation
\* of the caller is passed on to the recording task
ExecRecordingJoined ==
    /\ epc = "await_recording"
    /\ \/ /\ rpc = "done"
          /\ epc' = "returned"
          /\ UNCHANGED <<rpc, session_cancelled>>
       \/ /\ rpc = "failed"
          /\ epc' = "raised"
          /\ UNCHANGED <<rpc, session_cancelled>>
       \/ /\ rpc \in {"created", "running"}
          /\ ~session_cancelled
          /\ session_cancelled' = TRUE
          /\ rpc' = "cancelled"
          /\ epc' = "cancelled"
    /\ UNCHANGED <<observer_vars, has_observer, with_observation, num_actions,
                   e_pending, action_idx, obs_task, debug_failures, handled, driver_vars, caller_vars, shared_vars, tutorial_vars, loop_vars, hpc>>

\* ScreenRecorder.record_clip (recorder.py lines 44-96): the task runs until
\* the duration is over, or raises what the backend or the encoder raises
RecorderStep ==
    /\ \/ rpc = "created" /\ rpc' = "running"
       \/ rpc = "running" /\ rpc' \in {"done", "failed"}
    /\ UNCHANGED <<observer_vars, has_observer, with_observation, num_actions, epc,
                   e_pending, action_idx, obs_task, debug_failures, handled,
                   session_cancelled, driver_vars, caller_vars, shared_vars, tutorial_vars, loop_vars, hpc>>

\* the driver is not part of this specification
DriverIdle ==
    /\ plan = <<>>
    /\ mcp_clients = {}
    /\ pc = "start"
    /\ i = 1
    /\ task_steps = <<>>
    /\ results = <<>>
    /\ all_success = TRUE
    /\ fixed = FALSE
    /\ result = NoResult
    /\ exc = "none"
    /\ events = <<>>
    /\ invoked = <<>>
    /\ outcomes = <<>>
    /\ snapshots = 0
    /\ diag = [k \in 1..MaxSteps |-> NoFix]
    /\ recoveries = [k \in 1..MaxSteps |-> "none"]
    /\ self_debug_calls = 0
    /\ cancelled_at = "none"
    /\ diag_calls = 0
    /\ StubsUnset
    /\ CallerOnce

ExecInit ==
    /\ DriverIdle
    /\ SharedIdle
    /\ TutorialIdle
    /\ LoopIdle
    /\ ObserverInit
    /\ hpc = "idle"
    /\ has_observer \in BOOLEAN
    /\ with_observation \in BOOLEAN
    /\ num_actions \in 0..MaxActions
    /\ epc = "idle"
    /\ e_pending = "none"
    /\ action_idx = 1
    /\ obs_task = FALSE
    /\ rpc = "none"
    /\ debug_failures = 0
    /\ failed_action = 0
    /\ fixes = <<>>
    /\ top_fix = 0
    /\ session_cancelled = FALSE

ExecNext ==
    \/ ExecuteStepEnter
    \/ ExecSleep1Wake
    \/ ExecSleep2Wake
    \/ ExecCancelledBeforeTry
    \/ ExecAction
    \/ ExecCancelledInAction
    \/ ExecObserverJoined
    \/ ExecCancelledAtJoin
    \/ ExecRecordingJoined
    \/ RecorderStep
    \/ ObserverStart
    \/ ObserverWake
    \/ ObserverCancelled

ExecSpec == ExecInit /\ [][ExecNext]_vars

(* ------------------------------------------- create_tutorial               *)
MaxTutorialSteps == 2

\* orchestrator.py lines 149-158, one turn of the for loop: the clip of the
\* step that returned is appended and execute_step is called for the next
\* step, with the locals of a new call
TutorialNextStep ==
    /\ tpc = "executing"
    /\ epc = "returned"
    /\ step_no < num_steps
    /\ clips' = clips + 1
    /\ step_no' = step_no + 1
    /\ num_actions' \in 0..MaxActions
    /\ epc' = "idle"
    /\ e_pending' = "none"
    /\ action_idx' = 1
    /\ obs_task' = FALSE
    /\ rpc' = "none"
    /\ failed_action' = 0
    /\ fixes' = <<>>
    /\ top_fix' = 0
    /\ UNCHANGED <<num_steps, tpc, has_observer, with_observation, debug_failures,
                   session_cancelled, observer_vars, driver_vars, caller_vars,
                   shared_vars, loop_vars, hpc>>

\* lines 149-175: the last step returned; its clip is appended and the for
\* loop is over
TutorialRecorded ==
    /\ tpc = "executing"
    /\ epc = "returned"
    /\ step_no = num_steps
    /\ clips' = clips + 1
    /\ tpc' = "recorded"
    /\ UNCHANGED <<num_steps, step_no, observer_vars, executor_vars, driver_vars,
                   caller_vars, shared_vars, loop_vars, hpc>>

\* lines 153-156: execute_step raised or was cancelled; nothing in
\* create_tutorial catches it
TutorialAborted ==
    /\ tpc = "executing"
    /\ epc \in {"raised", "cancelled"}
    /\ tpc' = "raised"
    /\ UNCHANGED <<num_steps, step_no, clips, observer_vars, executor_vars,
                   driver_vars, caller_vars, shared_vars, loop_vars, hpc>>

\* create_tutorial(auto_execute=True) reaches the for loop with its plan; the
\* executor has the observer if and only if enable_live_cv is set (lines
\* 60-83), which is also what with_observation is passed
TutorialInit ==
    /\ DriverIdle
    /\ SharedIdle
    /\ LoopIdle
    /\ ObserverInit
    /\ hpc = "idle"
    /\ num_steps \in 1..MaxTutorialSteps
    /\ step_no = 1
    /\ clips = 0
    /\ tpc = "executing"
    /\ has_observer \in BOOLEAN
    /\ with_observation = has_observer
    /\ num_actions \in 0..MaxActions
    /\ epc = "idle"
    /\ e_pending = "none"
    /\ action_idx = 1
    /\ obs_task = FALSE
    /\ rpc = "none"
    /\ debug_failures = 0
    /\ failed_action = 0
    /\ fixes = <<>>
    /\ top_fix = 0
    /\ session_cancelled = FALSE

TutorialNext ==
    \/ ExecNext
    \/ TutorialNextStep
    \/ TutorialRecorded
    \/ TutorialAborted

TutorialSpec == TutorialInit /\ [][TutorialNext]_vars

(* ------------------------------------------- the event loop                *)
\* execute_step and start_observing are coroutines of one asyncio event loop:
\* its thread runs one of them at a time, from the point it is resumed at to
\* its next await that suspends.  The awaits that suspend are the
\* asyncio.sleep calls and the await of an unfinished task; the screen grab,
\* the detection and the requests of self.claude (anthropic.Anthropic, the
\* blocking client, live_cv_observer.py line 47) return without suspending.
LoopOthersIdle ==
    UNCHANGED <<driver_vars, caller_vars, shared_vars, observer_vars, executor_vars,
                tutorial_vars, hpc>>

\* start_observing is in a cycle, with its grab, detection or request in
\* flight
ObserverInFlight == lo_pc \in {"capture", "detect", "analyze"}

\* execute_step is in the call of an action, or in the handler with the grab
\* or the request of debug_failure in flight
ExecutorInFlight == le_pc \in {"action", "screenshot", "diagnose"}

\* executor.py lines 102-106 as the loop runs them: stop_observing(), then
\* the await of the task, which suspends unless the task is done
LoopFinally ==
    /\ lo_observing' = FALSE
    /\ le_pc' = IF lo_pc = "done" THEN "done" ELSE "join"
    /\ le_due' = FALSE
    /\ loop_running' = "none"

\* live_cv_observer.py lines 117-121: start_observing ends; a task awaiting
\* it is made ready
LoopObserverEnds ==
    /\ lo_pc' = "done"
    /\ lo_due' = FALSE
    /\ lo_observing' = FALSE
    /\ loop_running' = "none"
    /\ le_due' = (le_due \/ le_pc = "join")

\* executor.py lines 54-60: the task of start_observing is created, ready to
\* run, and execute_step sleeps
LoopExecuteStepEnter ==
    /\ loop_running = "none"
    /\ le_pc = "none"
    /\ lo_pc' = "created"
    /\ lo_due' = TRUE
    /\ le_pc' = "sleep1"
    /\ le_due' = FALSE
    /\ UNCHANGED <<loop_running, lo_observing, lo_cycles, le_actions>>
    /\ LoopOthersIdle

\* the timer of a sleep of execute_step expires, whatever the thread is doing
LoopExecutorTimer ==
    /\ le_pc \in {"sleep1", "sleep2", "action_sleep"}
    /\ ~le_due
    /\ le_due' = TRUE
    /\ UNCHANGED <<loop_running, lo_pc, lo_due, le_pc, lo_observing, lo_cycles,
                   le_actions>>
    /\ LoopOthersIdle

\* the timer of the sleep of line 115 expires, whatever the thread is doing
LoopObserverTimer ==
    /\ lo_pc = "sleeping"
    /\ ~lo_due
    /\ lo_due' = TRUE
    /\ UNCHANGED <<loop_running, lo_pc, le_pc, le_due, lo_observing, lo_cycles,
                   le_actions>>
    /\ LoopOthersIdle

\* the idle thread resumes start_observing: lines 83-96 the first time, the
\* while test of line 93 after a sleep
LoopResumeObserver ==
    /\ loop_running = "none"
    /\ lo_due
    /\ lo_pc \in {"created", "sleeping"}
    /\ IF lo_pc = "created" \/ lo_observing
       THEN /\ lo_observing' = TRUE
            /\ lo_pc' = "capture"
            /\ lo_due' = FALSE
            /\ loop_running' = "observer"
            /\ UNCHANGED le_due
       ELSE LoopObserverEnds
    /\ UNCHANGED <<le_pc, lo_cycles, le_actions>>
    /\ LoopOthersIdle

\* line 96: the grab returns, or raises and ends the loop (lines 117-121)
LoopObserverCaptured ==
    /\ loop_running = "observer"
    /\ lo_pc = "capture"
    /\ \/ /\ lo_pc' = "detect"
          /\ UNCHANGED <<loop_running, lo_due, le_due, lo_observing>>
       \/ LoopObserverEnds
    /\ UNCHANGED <<le_pc, lo_cycles, le_actions>>
    /\ LoopOthersIdle

\* lines 146-150: the detection returns
LoopObserverDetected ==
    /\ loop_running = "observer"
    /\ lo_pc = "detect"
    /\ lo_pc' = "analyze"
    /\ UNCHANGED <<loop_running, lo_due, le_pc, le_due, lo_observing, lo_cycles,
                   le_actions>>
    /\ LoopOthersIdle

\* lines 261-298, 102-115: the request returns or fails into its default; the
\* observation is appended, the callbacks return, and the loop sleeps
LoopObserverAnalyzed ==
    /\ loop_running = "observer"
    /\ lo_pc = "analyze"
    /\ lo_pc' = "sleeping"
    /\ lo_due' = FALSE
    /\ lo_cycles' = IF lo_cycles < MaxObs THEN lo_cycles + 1 ELSE lo_cycles
    /\ loop_running' = "none"
    /\ UNCHANGED <<le_pc, le_due, lo_observing, le_actions>>
    /\ LoopOthersIdle

\* the idle thread resumes execute_step: lines 63-71 after the first sleep,
\* the next action or the finally after the others, line 109 after the join
LoopResumeExecutor ==
    /\ loop_running = "none"
    /\ le_due
    /\ CASE le_pc = "sleep1" ->
              /\ le_pc' = "sleep2"
              /\ le_due' = FALSE
              /\ UNCHANGED <<loop_running, lo_observing>>
         [] le_pc \in {"sleep2", "action_sleep"} ->
              IF le_actions < num_actions
              THEN /\ le_pc' = "action"
                   /\ le_due' = FALSE
                   /\ loop_running' = "executor"
                   /\ UNCHANGED lo_observing
              ELSE LoopFinally
         [] le_pc = "join" ->
              /\ le_pc' = "done"
              /\ le_due' = FALSE
              /\ UNCHANGED <<loop_running, lo_observing>>
         [] OTHER -> FALSE
    /\ UNCHANGED <<lo_pc, lo_due, lo_cycles, le_actions>>
    /\ LoopOthersIdle

\* lines 76, 113-262: the pyautogui calls of the action return and the action
\* sleeps, or they raise into the handler of line 78
LoopExecutorActed ==
    /\ loop_running = "executor"
    /\ le_pc = "action"
    /\ \/ /\ le_pc' = "action_sleep"
          /\ le_actions' = le_actions + 1
          /\ loop_running' = "none"
       \/ /\ le_pc' = "screenshot"
          /\ UNCHANGED <<le_actions, loop_running>>
    /\ UNCHANGED <<lo_pc, lo_due, le_due, lo_observing, lo_cycles>>
    /\ LoopOthersIdle

\* lines 84-94: the grab of the handler returns and debug_failure is called
LoopExecutorScreenshot ==
    /\ loop_running = "executor"
    /\ le_pc = "screenshot"
    /\ le_pc' = "diagnose"
    /\ UNCHANGED <<loop_running, lo_pc, lo_due, le_due, lo_observing, lo_cycles,
                   le_actions>>
    /\ LoopOthersIdle

\* lines 90-106: debug_failure returns; the finally follows
LoopExecutorDiagnosed ==
    /\ loop_running = "executor"
    /\ le_pc = "diagnose"
    /\ LoopFinally
    /\ UNCHANGED <<lo_pc, lo_due, lo_cycles, le_actions>>
    /\ LoopOthersIdle

\* execute_step(step, with_observation=True) of an executor that has the
\* observer is about to be called
LoopInit ==
    /\ DriverIdle
    /\ SharedIdle
    /\ TutorialIdle
    /\ LoopIdle
    /\ ObserverInit
    /\ hpc = "idle"
    /\ has_observer = TRUE
    /\ with_observation = TRUE
    /\ num_actions \in 0..MaxActions
    /\ epc = "idle"
    /\ e_pending = "none"
    /\ action_idx = 1
    /\ obs_task = FALSE
    /\ rpc = "none"
    /\ debug_failures = 0
    /\ failed_action = 0
    /\ fixes = <<>>
    /\ top_fix = 0
    /\ session_cancelled = FALSE

LoopNext ==
    \/ LoopExecuteStepEnter
    \/ LoopExecutorTimer
    \/ LoopObserverTimer
    \/ LoopResumeObserver
    \/ LoopObserverCaptured
    \/ LoopObserverDetected
    \/ LoopObserverAnalyzed
    \/ LoopResumeExecutor
    \/ LoopExecutorActed
    \/ LoopExecutorScreenshot
    \/ LoopExecutorDiagnosed

LoopSpec == LoopInit /\ [][LoopNext]_vars

(* ------------------------------------------- a caller of start / stop      *)
\* asyncio.create_task(observer.start_observing()), as at executor.py line 57
CallerCreateTask ==
    /\ hpc = "idle"
    /\ opc' = "created"
    /\ hpc' = "created"
    /\ UNCHANGED <<observing, observation_history, history_overflow, cycle_parity, learned, noted, sampler_failed,
                   o_cancel,
                   stop_called, driver_vars, caller_vars, shared_vars, tutorial_vars, loop_vars, executor_vars>>

\* stop_observing (lines 123-125), called at any scheduling point after the
\* task was created; the caller then awaits the task
StopObserving ==
    /\ hpc = "created"
    /\ observing' = FALSE
    /\ stop_called' = TRUE
    /\ hpc' = "awaiting"
    /\ UNCHANGED <<observation_history, history_overflow, cycle_parity, learned, noted, sampler_failed, opc, o_cancel,
                   driver_vars, caller_vars, shared_vars, tutorial_vars, loop_vars, executor_vars>>

\* await task returns
CallerJoined ==
    /\ hpc = "awaiting"
    /\ ObserverDone
    /\ hpc' = "done"
    /\ UNCHANGED <<observer_vars, driver_vars, caller_vars, shared_vars, tutorial_vars, loop_vars, executor_vars>>

ObserverSpecInit ==
    /\ DriverIdle
    /\ SharedIdle
    /\ TutorialIdle
    /\ LoopIdle
    /\ ObserverInit
    /\ ExecutorIdle
    /\ hpc = "idle"

ObserverNext ==
    \/ CallerCreateTask
    \/ StopObserving
    \/ CallerJoined
    \/ ObserverStart
    \/ ObserverWake

\* the event loop runs a task that is ready and lets every sleep end
ObserverSpec ==
    /\ ObserverSpecInit
    /\ [][ObserverNext]_vars
    /\ WF_vars(ObserverStart)
    /\ WF_vars(ObserverWake)
    /\ WF_vars(CallerJoined)

(* ------------------------- concurrent requests on the shared orchestrator *)
\* vps_api_server.py keeps one AgentOrchestrator (get_orchestrator, lines
\* 53-77) and runs each /execute request with asyncio.run on the thread that
\* serves it (line 160; app.run(threaded=True), line 331).  Each run has its
\* own locals; self.task_steps belongs to the instance.  An action is a
\* stretch of _execute_plan one thread runs without giving way.
OtherVarsIdle ==
    UNCHANGED <<driver_vars, caller_vars, observer_vars, executor_vars, hpc,
                tutorial_vars, loop_vars>>

\* a TaskStep in self.task_steps, told apart by the run that created it
SharedTaskStep(r, k, status) == [run |-> r, step |-> k, status |-> status]

\* step.status = status, through the run's local reference `step`: it shows
\* in self.task_steps if the object is (still) in that list
SetStatus(list, r, k, status) ==
    [n \in 1..Len(list) |->
        IF list[n].run = r /\ list[n].step = k
        THEN SharedTaskStep(r, k, status) ELSE list[n]]

\* lines 345-381: the workflow _generate_workflow builds from a step list:
\* a node node_i for every completed step, i counted from 0 over the whole
\* list, and for such a step with i > 0 a connection from node_(i-1)
GenerateWorkflow(list) ==
    [generated |-> TRUE,
     nodes |-> {n - 1 : n \in {m \in 1..Len(list) : list[m].status = "completed"}},
     connections |-> {<<n - 2, n - 1>> :
                        n \in {m \in 2..Len(list) : list[m].status = "completed"}}]

\* line 76: result["success"], the all_success of the run: no step of it
\* failed
RunSuccess(r) == run_i[r] > run_len[r]

\* line 160: a request arrives with its plan
RunRequest(r) ==
    /\ run_pc[r] = "idle"
    /\ \E n \in 0..MaxSteps : run_len' = [run_len EXCEPT ![r] = n]
    /\ run_pc' = [run_pc EXCEPT ![r] = "start"]
    /\ UNCHANGED <<shared_steps, run_i, run_created, seen_steps, workflows>>
    /\ OtherVarsIdle

\* lines 166-168: self.task_steps = []
RunEnter(r) ==
    /\ run_pc[r] = "start"
    /\ shared_steps' = <<>>
    /\ run_pc' = [run_pc EXCEPT ![r] = "loop"]
    /\ UNCHANGED <<run_len, run_i, run_created, seen_steps, workflows>>
    /\ OtherVarsIdle

\* lines 170-203: the TaskStep is created, appended to self.task_steps and
\* marked running; the run then waits for its tool
RunStepBegin(r) ==
    /\ run_pc[r] = "loop"
    /\ run_i[r] <= run_len[r]
    /\ shared_steps' = Append(shared_steps, SharedTaskStep(r, run_i[r], "running"))
    /\ run_created' = [run_created EXCEPT ![r] = run_created[r] + 1]
    /\ run_pc' = [run_pc EXCEPT ![r] = "call_tool"]
    /\ UNCHANGED <<run_len, run_i, seen_steps, workflows>>
    /\ OtherVarsIdle

\* lines 205-216: the tool returned
RunStepCompleted(r) ==
    /\ run_pc[r] = "call_tool"
    /\ shared_steps' = SetStatus(shared_steps, r, run_i[r], "completed")
    /\ run_i' = [run_i EXCEPT ![r] = run_i[r] + 1]
    /\ run_pc' = [run_pc EXCEPT ![r] = "loop"]
    /\ UNCHANGED <<run_len, run_created, seen_steps, workflows>>
    /\ OtherVarsIdle

\* lines 218-239: the dispatch or the tool raised; _self_debug returns False
\* and the loop is left
RunStepFailed(r) ==
    /\ run_pc[r] = "call_tool"
    /\ shared_steps' = SetStatus(shared_steps, r, run_i[r], "error")
    /\ run_pc' = [run_pc EXCEPT ![r] = "return"]
    /\ UNCHANGED <<run_len, run_i, run_created, seen_steps, workflows>>
    /\ OtherVarsIdle

\* lines 241-245: the run returns; self.task_steps is what a reader of the
\* orchestrator finds for it
RunReturn(r) ==
    /\ \/ run_pc[r] = "loop" /\ run_i[r] > run_len[r]
       \/ run_pc[r] = "return"
    /\ seen_steps' = [seen_steps EXCEPT ![r] = shared_steps]
    /\ run_pc' = [run_pc EXCEPT ![r] = "returned"]
    /\ UNCHANGED <<shared_steps, run_len, run_i, run_created, workflows>>
    /\ OtherVarsIdle

\* lines 76-92: process_user_message has the result of its run; if its
\* success flag is set the workflow is generated, from self.task_steps as it
\* is now, and the reply is returned
RunReply(r) ==
    /\ run_pc[r] = "returned"
    /\ workflows' = [workflows EXCEPT ![r] =
                        IF RunSuccess(r) THEN GenerateWorkflow(shared_steps)
                        ELSE NoWorkflow]
    /\ run_pc' = [run_pc EXCEPT ![r] = "replied"]
    /\ UNCHANGED <<shared_steps, run_len, run_i, run_created, seen_steps>>
    /\ OtherVarsIdle

SharedInit ==
    /\ DriverIdle
    /\ ObserverInit
    /\ ExecutorIdle
    /\ hpc = "idle"
    /\ SharedIdle
    /\ TutorialIdle
    /\ LoopIdle

SharedNext ==
    \E r \in Runs :
        \/ RunRequest(r)
        \/ RunEnter(r)
        \/ RunStepBegin(r)
        \/ RunStepCompleted(r)
        \/ RunStepFailed(r)
        \/ RunReturn(r)
        \/ RunReply(r)

SharedSpec == SharedInit /\ [][SharedNext]_vars

(* ------------------------------------------------------- step driver     *)
Range(s) == {s[n] : n \in 1..Len(s)}

\* the invocation of step k ended in an error the except handler caught
StepFailed(k) ==
    k <= Len(outcomes) /\ outcomes[k] \in {"error", "ValueError", "RuntimeError"}

\* every invocation made so far returned
AllCallsOk == \A k \in 1..Len(outcomes) : outcomes[k] = "ok"

\* C1: when step k's invocation failed and _self_debug reported failure, no
\* tool is invoked for a later step, every later step stays pending, and a
\* returned result has success = false.
C1_HaltsOnFailedRecovery ==
    \A k \in 1..N :
        recoveries[k] = "false" =>
            /\ StepFailed(k)
            /\ \A j \in (k+1)..N : j \notin Range(invoked) /\ StatusOf(j) = "pending"
            /\ result.returned => ~result.success

C1_Witness ==
    /\ result.returned
    /\ \E k \in 1..N : k < N /\ recoveries[k] = "false"

\* a fix that would resolve the failure: Skip needs no re-invocation, the
\* others resolve it when the re-invocation they prescribe succeeds
FixSucceeds(k) ==
    /\ diag[k].kind = "fix"
    /\ \/ diag[k].strategy = "skip"
       \/ diag[k].works /\ diag[k].strategy = "alternative_approach"
       \/ diag[k].works /\ outcomes[k] = "error"

\* C2: a step whose invocation failed and whose selected fix succeeds ends
\* recovered (status completed), the steps after it are still executed, and
\* the result has success = true when every failure was so resolved.
C2_RecoveredStepContinues ==
    result.returned =>
        /\ \A k \in 1..N :
              (StepFailed(k) /\ FixSucceeds(k)) =>
                  /\ StatusOf(k) = "completed"
                  /\ k < N => StatusOf(k + 1) # "pending"
        /\ (\A k \in 1..N : StepFailed(k) => FixSucceeds(k)) => result.success

\* C3: a failed Diagnostic Service call (unreachable, timed out, unparseable)
\* makes _self_debug report false: no exception leaves the run, the steps
\* after k are never invoked, and a returned result has success = false.
C3_DiagnosisFailureReportsFalse ==
    \A k \in 1..N :
        diag[k].kind \in {"unreachable", "timeout", "unparseable"} =>
            /\ exc = "none"
            /\ recoveries[k] = "false"
            /\ \A j \in (k+1)..N : j \notin Range(invoked)
            /\ result.returned => ~result.success

\* C4: when every invocation succeeds, the run invokes all N steps in order,
\* each step holds its result and is completed, _self_debug is never called
\* and the result has success = true.
C4_AllSuccessRun ==
    (result.returned /\ AllCallsOk) =>
        /\ invoked = [k \in 1..N |-> k]
        /\ Len(task_steps) = N
        /\ \A k \in 1..N : task_steps[k].status = "completed" /\ task_steps[k].has_result
        /\ self_debug_calls = 0
        /\ result.success

C4_Witness ==
    /\ result.returned
    /\ AllCallsOk
    /\ N >= 2
    /\ Len(invoked) = N

\* C5: the returned success flag is true only if every step of the plan is
\* completed; it is false when a step is in error or was never reached.
C5_SuccessOnlyIfAllCompleted ==
    result.returned =>
        (result.success => \A k \in 1..N : StatusOf(k) = "completed")

C5_Witness ==
    /\ result.returned
    /\ ~result.success
    /\ \E k \in 1..N : StatusOf(k) = "error"
    /\ Len(task_steps) < N

\* C6: invocations happen in strictly increasing step order, at most one
\* step is running, and while a step is running every earlier step is
\* completed.
C6_StrictlySequential ==
    /\ \A a, b \in 1..Len(invoked) : a < b => invoked[a] < invoked[b]
    /\ Cardinality({k \in 1..Len(task_steps) : task_steps[k].status = "running"}) <= 1
    /\ \A k \in 1..Len(task_steps) :
          task_steps[k].status = "running" =>
              \A j \in 1..(k-1) : task_steps[j].status = "completed"

C6_Witness ==
    /\ pc = "call_tool"
    /\ i >= 3
    /\ Len(invoked) >= 2

\* line 408: the total _format_response reports is len(result['steps'])
ReportedSteps(res) == Len(res.steps)

\* C7: the returned result enumerates every step of the plan: the number of
\* reported outcomes equals the number of steps, also after an early halt.
C7_ReportsEveryStep ==
    result.returned => ReportedSteps(result) = N

\* C10: a cancellation that arrives at an await of the run never leaves it
\* as an exception, and no step is begun after it.
C10_CancellationReturnsResult ==
    cancelled_at # "none" =>
        /\ exc = "none"
        /\ pc \notin {"loop", "call_tool"}

Invocations(k) == Cardinality({n \in 1..Len(invoked) : invoked[n] = k})

\* steps whose dispatch or invocation has raised
Failures == Cardinality({k \in 1..MaxSteps : StepFailed(k)})

\* C18: the invocations made for one step of a run never exceed the maximum
\* attempts per step: a run makes at most one, which is within every
\* maximum of one attempt or more (the default of one retry included).
C18_AttemptBound ==
    \A k \in 1..MaxSteps : Invocations(k) <= 1

\* a step was invoked, failed and went through recovery with a retry fix
C18_Witness ==
    \E k \in 1..MaxSteps :
        /\ Invocations(k) = 1
        /\ outcomes[k] = "error"
        /\ diag[k].strategy = "retry"
        /\ pc = "returned"

\* C19: _self_debug is called once for every step failure (the handler of a
\* failure that was just raised is about to call it), it calls the Diagnostic
\* Service at most once, and so the Diagnostic Service calls of a run never
\* exceed its step failures.
C19_SingleRecoveryAttempt ==
    /\ self_debug_calls = (IF pc = "except" THEN Failures - 1 ELSE Failures)
    /\ diag_calls <= self_debug_calls
    /\ diag_calls <= Failures

\* a failure whose diagnosis could not be parsed, after which the run returned
C19_Witness ==
    /\ pc = "returned"
    /\ Failures = 1
    /\ diag_calls = 1
    /\ \E k \in 1..MaxSteps : diag[k].kind = "unparseable"

\* C20: after a modify_args fix the step's arguments are the original ones
\* with the keys of new_args overwritten, the tool has been invoked once more
\* for the step, and _self_debug returned True exactly if that invocation
\* would succeed.
C20_ModifyArgsRecovery ==
    \A k \in 1..Len(task_steps) :
        (diag[k].strategy = "modify_args" /\ recoveries[k] # "none") =>
            /\ task_steps[k].args = DictUpdate(GetArgs(plan[k]), diag[k].new_args)
            /\ Invocations(k) = (IF outcomes[k] = "error" THEN 2 ELSE 1)
            /\ recoveries[k] = "true" <=> diag[k].works

\* C21: after a skip fix no further invocation has been made for the step,
\* _self_debug returned True, and once the handler is through the step counts
\* as a success and the loop has gone on to the next step.
C21_SkipRecovery ==
    \A k \in 1..Len(task_steps) :
        (diag[k].strategy = "skip" /\ recoveries[k] # "none") =>
            /\ Invocations(k) = (IF outcomes[k] = "error" THEN 1 ELSE 0)
            /\ recoveries[k] = "true"
            /\ pc \notin {"debug_diagnose", "after_debug"} =>
                  (StatusOf(k) = "completed" /\ i > k)

(* ------------------------------------------------- observer and executor  *)
\* C8: with observation enabled, the observation task has had its first run
\* before the first action is executed, and whenever execute_step has been
\* left (return, error or cancellation) the loop is stopped and its task has
\* terminated.
C8_ObserverScopedToStep ==
    obs_task =>
        /\ epc = "actions" => opc # "created"
        /\ ExecDone => (ObserverDone /\ ~observing)

\* C9: once stop_observing has been called for a task that was created, the
\* loop eventually is idle and its task has terminated.
C9_StopLeadsToIdle ==
    stop_called ~> (ObserverDone /\ ~observing)

(* ------------------------------------------------- observation history    *)
\* the configured bound B of the history, taken inside the tracked window so
\* that a session can append more than B observations
HistoryBound == MaxObs - 1

\* C11: the observation history never holds more than its bound B, and what
\* it holds are consecutive captures in their original order (with more than
\* B appended, the last B of them).
C11_HistoryBounded ==
    /\ Len(observation_history) <= HistoryBound
    /\ \A n \in 1..(Len(observation_history) - 1) :
          observation_history[n + 1].timestamp = observation_history[n].timestamp + 1

(* ------------------------------------------------- repeated execution     *)
\* C12: with stubs whose answers depend on tool and arguments only, a second
\* call of _execute_plan on the same plan object makes the status changes of
\* the first call, in the same order, and returns the same result.
C12_ExecuteIdempotent ==
    (run = 2 /\ pc = "returned") =>
        /\ events = first_events
        /\ result = first_result

(* ------------------------------------------------- the step list          *)
\* the steps a list of TaskSteps holds, as <<run, step>>
Owners(list) == [n \in 1..Len(list) |-> <<list[n].run, list[n].step>>]

\* C13: when a run returns, self.task_steps holds exactly the steps that run
\* created, in plan order, also when other runs were requested on the same
\* orchestrator meanwhile.
C13_StepListOwnedByRun ==
    \A r \in Runs :
        run_pc[r] = "returned" =>
            Owners(seen_steps[r]) = [k \in 1..run_created[r] |-> <<r, k>>]

(* ------------------------------------------------- observer state         *)
\* C14: the history changes only by the observer loop appending one new
\* Observation at the tail: what it held stays as it was and in place, the
\* new entry is the latest capture; and the history and the pattern table are
\* written by the observer loop alone, never by execute_step or its
\* debug_failure path.
C14_HistoryAppendOnly ==
    [][/\ observation_history' # observation_history =>
            /\ Len(observation_history') = Len(observation_history) + 1
            /\ SubSeq(observation_history', 1, Len(observation_history))
                  = observation_history
            /\ \A n \in 1..Len(observation_history) :
                  observation_history[n].timestamp
                      < observation_history'[Len(observation_history')].timestamp
       /\ (observation_history' # observation_history \/ pattern_db' # pattern_db) =>
            /\ opc \in {"created", "sleeping"}
            /\ opc' = "sleeping"
            /\ UNCHANGED executor_vars]_vars

\* execute_step asked debug_failure for a diagnosis while the history held
\* observations, and the loop appended again
C14_Witness ==
    /\ debug_failures > 0
    /\ Len(observation_history) = MaxObs
    /\ \E l \in Labels : pattern_db[l] > 0

\* C15: for every label the table's count is the number of times analyses
\* have reported the label (0: the label is no key), and no count ever
\* decreases.
C15_PatternCounts ==
    /\ [](\A l \in Labels : pattern_db[l] = reported[l])
    /\ [][\A l \in Labels : pattern_db'[l] >= pattern_db[l]]_vars

\* a label was reported twice by one analysis and again by a later one
C15_Witness ==
    /\ \E l \in Labels : pattern_db[l] > 2
    /\ \E l \in Labels : pattern_db[l] = 1

\* C17: an analysis whose request or parsing failed never ends up as an
\* ordinary Observation in the history.
C17_DiagnosticFailsClosed ==
    \A n \in 1..Len(observation_history) : ~observation_history[n].analysis_failed

(* ------------------------------------------------- observer loop          *)
\* C23: once stop_observing has been called on a loop that is running (its
\* task has started and is at its sleep), no further cycle begins: nothing
\* is captured, analysed, appended or notified any more.  A cycle has no
\* suspension point before its sleep, so the stop finds it complete.
C23_StopAtSleepBoundary ==
    [][(stop_called /\ ~observing /\ opc \notin {"none", "created"}) =>
            UNCHANGED <<observation_history, history_overflow, cycle_parity,
                        learned, noted, sampler_failed>>]_vars

\* the loop ran a cycle, was stopped at its sleep and has ended
C23_Witness ==
    /\ stop_called
    /\ opc = "done"
    /\ Len(observation_history) = 1
    /\ hpc = "done"

\* C24: a capture that raises leaves the loop running, and execute_step does
\* not raise because of it.
C24_SamplerErrorTolerated ==
    sampler_failed =>
        /\ opc # "failed"
        /\ (e_pending = "none" /\ rpc # "failed") => epc # "raised"

\* callbacks of the given kind called for the observation of cycle n
EventsFor(name, n) ==
    {m \in 1..Len(observer_events) :
        observer_events[m].event = name /\ observer_events[m].about = n}

\* C25: for every cycle, on_suggestion has been called if the analysis
\* returned a next action, and on_error_detected has been called if the
\* analysis returned issues.
C25_ObserverEvents ==
    \A n \in 1..Len(analysis_log) :
        /\ analysis_log[n].next_action => EventsFor("suggestion", n) # {}
        /\ analysis_log[n].issues => EventsFor("error", n) # {}

\* position of a callback within the calls of one cycle
EventRank(name) ==
    CASE name = "observation" -> 1
      [] name = "suggestion" -> 2
      [] name = "error" -> 3

\* C29: when a callback is called for an Observation, that Observation is
\* the latest of the history; the calls of one cycle come in the order
\* observation, suggestion, error, and the calls of an earlier cycle come
\* before those of a later one.
C29_PublishBeforeNotify ==
    /\ \A m \in 1..Len(observer_events) :
          observer_events[m].latest = observer_events[m].about
    /\ \A m, n \in 1..Len(observer_events) :
          m < n =>
            \/ observer_events[m].about < observer_events[n].about
            \/ /\ observer_events[m].about = observer_events[n].about
               /\ EventRank(observer_events[m].event) < EventRank(observer_events[n].event)

\* two cycles that each called all three callbacks
C29_Witness ==
    /\ Len(observer_events) > 5
    /\ Len(observation_history) > 1

\* the entry with the highest likelihood, the first of them on a tie
BestFix(returned) ==
    CHOOSE k \in 1..Len(returned) :
        \A j \in 1..Len(returned) :
            /\ returned[j] <= returned[k]
            /\ j < k => returned[j] < returned[k]

\* C22: whenever the handler of execute_step was given a non-empty fix list,
\* in whatever order the Diagnostic Service returned it, the fix it chose is
\* the one of highest likelihood, the first such on a tie.
C22_FixSelection ==
    (failed_action # 0 /\ fixes # <<>>) => top_fix = BestFix(fixes)

C30_DanglingConnection ==
    \E r \in Runs : \E c \in workflows[r].connections : c[1] \notin workflows[r].nodes

\* with no other request made, the workflow is well formed
C30_AloneWellFormed ==
    \A r \in Runs :
        (workflows[r].generated /\ \A o \in Runs \ {r} : run_pc[o] = "idle") =>
            /\ workflows[r].nodes = 0..(run_len[r] - 1)
            /\ \A c \in workflows[r].connections :
                   c[1] \in workflows[r].nodes /\ c[2] \in workflows[r].nodes

(* ------------------------------------------------- create_tutorial        *)
\* C27: when an action of a step raises, execute_step runs no further action
\* of the step and does not run the failed one again; the exception is not
\* what execute_step raises (it raises only if the handler's own screenshot,
\* the observation task or the recording failed), and when it returns the
\* recording is done; create_tutorial then has the next step to execute, and
\* when it has recorded the plan it holds one clip per step.
C27_ActionFailureSwallowed ==
    /\ failed_action # 0 =>
          /\ action_idx = failed_action
          /\ epc # "actions"
          /\ epc = "raised" =>
                (e_pending = "Exception" \/ opc = "failed" \/ rpc = "failed")
          /\ epc = "returned" => rpc = "done"
          /\ (epc = "returned" /\ tpc = "executing" /\ step_no < num_steps) =>
                ENABLED TutorialNextStep
    /\ tpc = "recorded" => (clips = num_steps /\ step_no = num_steps)

\* the second step is about to be executed after a step whose first action
\* raised and was diagnosed
C27_Witness ==
    /\ tpc = "executing"
    /\ step_no = 2
    /\ clips = 1
    /\ epc = "sleep2"
    /\ debug_failures = 1

\* C28: an observation task is created only when the one before it is done,
\* its loop left and self.observing false; between two steps no loop is
\* running; and from step to step the observation history only grows at its
\* tail and the counts of the pattern table never go down.
C28_NoOverlappingLoops ==
    /\ [][(opc' = "created" /\ opc # "created") =>
             (opc \in {"none", "done"} /\ ~observing)]_vars
    /\ [](epc = "idle" => (opc \in {"none", "done"} /\ ~observing))
    /\ [][/\ Len(observation_history') >= Len(observation_history)
          /\ SubSeq(observation_history', 1, Len(observation_history))
                = observation_history
          /\ \A l \in Labels : pattern_db'[l] >= pattern_db[l]
          /\ history_overflow => history_overflow']_vars

\* the loop of the second step is started on the history and the pattern
\* table the loop of the first step left
C28_Witness ==
    /\ step_no = 2
    /\ opc = "created"
    /\ observation_history # <<>>
    /\ \E l \in Labels : pattern_db[l] > 0

(* ------------------------------------------------- the event loop         *)
\* C26: while the observer has its grab, detection or request in flight,
\* execute_step, its sleep over, can be resumed; and while execute_step has
\* an action or the diagnosis in flight, the observer, its sleep over, can be
\* resumed: neither one's call in flight keeps the other from its next step.
C26_MutualNonBlocking ==
    /\ (ObserverInFlight /\ le_due) => ENABLED LoopResumeExecutor
    /\ (ExecutorInFlight /\ lo_due) => ENABLED LoopResumeObserver

\* the observer is due while the diagnosis is in flight
C26_ObserverHeldUp == ExecutorInFlight /\ le_pc = "diagnose" /\ lo_due /\ lo_cycles > 0

====
